---- MODULE Spec2Model ----
(***************************************************************************)
(* Model of the ffmpeg-cli progress pipeline (src/src/runner.rs):          *)
(* FfmpegBuilder::run (bind, spawn, accept, pump task), parse_line,        *)
(* handle_parse_error, and the futures mpsc unbounded channel that carries *)
(* the Result<Progress> items to the consumer.                             *)
(*                                                                         *)
(* Strings are sequences of one-character strings, so that trimming,       *)
(* splitting and numeric parsing are computed character by character.      *)
(* Option<T> is a sequence of length 0 (None) or 1 (Some(x)); the result   *)
(* of a str::parse is likewise <<>> (Err) or <<v>> (Ok(v)).                *)
(***************************************************************************)
EXTENDS Integers, Sequences, FiniteSets, TLC

(***************************************************************************)
(* Bounds of the model.                                                    *)
(***************************************************************************)
\* number of read_line() calls that return a line or an I/O error
MaxReads == 3

\* a job description has at most MaxParts global options and files in all
MaxParts == 4

\* parse_line is called on every line of at most MaxLineLen characters
MaxLineLen == 4

None == <<>>
Some(x) == <<x>>

(***************************************************************************)
(* Characters and the str helpers used by parse_line.                      *)
(***************************************************************************)
\* char::is_whitespace, restricted to the ASCII whitespace of the wire
WhiteSpace == {" ", "\t", "\n", "\r"}

Digits == {"0", "1", "2", "3", "4", "5", "6", "7", "8", "9"}

DigitVal(c) ==
    CASE c = "0" -> 0 [] c = "1" -> 1 [] c = "2" -> 2 [] c = "3" -> 3
      [] c = "4" -> 4 [] c = "5" -> 5 [] c = "6" -> 6 [] c = "7" -> 7
      [] c = "8" -> 8 [] c = "9" -> 9

RECURSIVE trim_start(_)
\* str::trim_start
trim_start(s) ==
    IF s # <<>> /\ Head(s) \in WhiteSpace THEN trim_start(Tail(s)) ELSE s

RECURSIVE trim_end(_)
\* str::trim_end
trim_end(s) ==
    IF s # <<>> /\ s[Len(s)] \in WhiteSpace
    THEN trim_end(SubSeq(s, 1, Len(s) - 1))
    ELSE s

\* str::trim
trim(s) == trim_end(trim_start(s))

RECURSIVE FindFrom(_, _, _)
\* index of the first occurrence of character c in s at or after i, 0 if none
FindFrom(s, c, i) ==
    IF i > Len(s) THEN 0
    ELSE IF s[i] = c THEN i
    ELSE FindFrom(s, c, i + 1)

\* str::splitn(2, '='): the items the iterator yields, at most two
splitn2(s) ==
    LET i == FindFrom(s, "=", 1)
    IN IF i = 0 THEN <<s>>
       ELSE <<SubSeq(s, 1, i - 1), SubSeq(s, i + 1, Len(s))>>

\* Variant of parse_line that splits at every "=" and keeps the first two parts.
parse_line_split_every(line) ==
    LET trimmed == trim(line)
        iter == splitn2(trimmed)
    IN IF Len(iter) < 2 THEN None
       ELSE Some(<<trim_end(iter[1]), trim_start(splitn2(iter[2])[1])>>)

\* fn parse_line: None, or Some(<<key, value>>)
parse_line(line) ==
    LET trimmed == trim(line)
        iter == splitn2(trimmed)
    IN IF Len(iter) < 2 THEN None
       ELSE Some(<<trim_end(iter[1]), trim_start(iter[2])>>)

(***************************************************************************)
(* <u64 as FromStr>::from_str.  The parsed number is kept as its canonical *)
(* decimal digit string (no leading zeros), so that the 64-bit range check *)
(* is exact.                                                               *)
(***************************************************************************)
U64MaxDigits ==
    <<"1", "8", "4", "4", "6", "7", "4", "4", "0", "7",
      "3", "7", "0", "9", "5", "5", "1", "6", "1", "5">>

AllDigits(s) == \A i \in 1..Len(s) : s[i] \in Digits

RECURSIVE StripZeros(_)
\* canonical form of a digit string: leading zeros removed, "0" for zero
StripZeros(d) ==
    IF Len(d) > 1 /\ Head(d) = "0" THEN StripZeros(Tail(d)) ELSE d

RECURSIVE DigitsLeq(_, _)
\* a <= b for digit strings of equal length
DigitsLeq(a, b) ==
    IF a = <<>> THEN TRUE
    ELSE IF DigitVal(Head(a)) < DigitVal(Head(b)) THEN TRUE
    ELSE IF DigitVal(Head(a)) > DigitVal(Head(b)) THEN FALSE
    ELSE DigitsLeq(Tail(a), Tail(b))

FitsU64(d) ==
    \/ Len(d) < Len(U64MaxDigits)
    \/ Len(d) = Len(U64MaxDigits) /\ DigitsLeq(d, U64MaxDigits)

\* x.parse::<u64>(): Err for "", "+", "-", a non-digit, or a value >= 2^64
parse_u64(s) ==
    LET body == IF s # <<>> /\ Head(s) = "+" THEN Tail(s) ELSE s
    IN IF body = <<>> \/ ~AllDigits(body) THEN <<>>
       ELSE IF ~FitsU64(StripZeros(body)) THEN <<>>
       ELSE <<StripZeros(body)>>

(***************************************************************************)
(* <f64 as FromStr>::from_str.  Grammar of core::num::dec2flt:             *)
(*   [+-] ( digits [ . digits* ] | . digits ) [ (e|E) [+-] digits ]        *)
(*   [+-] ( inf | infinity | nan )            (letters case-insensitive)   *)
(* A finite value is kept as sign, canonical mantissa digits and decimal   *)
(* exponent (value = mant * 10^exp); rounding to binary64 is not modelled. *)
(***************************************************************************)
RECURSIVE SpanDigits(_, _)
\* number of consecutive ASCII digits of s starting at index i
SpanDigits(s, i) ==
    IF i <= Len(s) /\ s[i] \in Digits THEN 1 + SpanDigits(s, i + 1) ELSE 0

RECURSIVE ToInt(_)
\* value of a short digit string
ToInt(d) ==
    IF d = <<>> THEN 0
    ELSE 10 * ToInt(SubSeq(d, 1, Len(d) - 1)) + DigitVal(d[Len(d)])

RECURSIVE NormFloat(_, _, _)
\* canonical sign / mantissa / exponent triple
NormFloat(neg, mant, exp) ==
    LET m == StripZeros(mant)
    IN IF m = <<"0">> THEN [neg |-> neg, mant |-> m, exp |-> 0]
       ELSE IF m[Len(m)] = "0"
            THEN NormFloat(neg, SubSeq(m, 1, Len(m) - 1), exp + 1)
       ELSE [neg |-> neg, mant |-> m, exp |-> exp]

\* u8::to_ascii_lowercase on the letters of inf / infinity / nan
Lower(c) ==
    CASE c = "I" -> "i" [] c = "N" -> "n" [] c = "F" -> "f"
      [] c = "T" -> "t" [] c = "Y" -> "y" [] c = "A" -> "a"
      [] OTHER -> c

LowerStr(s) == [i \in 1..Len(s) |-> Lower(s[i])]

\* dec2flt parse_inf_nan
parse_inf_nan(body, neg) ==
    LET l == LowerStr(body)
    IN IF l = <<"i", "n", "f">>
          \/ l = <<"i", "n", "f", "i", "n", "i", "t", "y">>
       THEN <<[neg |-> neg, mant |-> <<"i", "n", "f">>, exp |-> 0]>>
       ELSE IF l = <<"n", "a", "n">>
       THEN <<[neg |-> neg, mant |-> <<"n", "a", "n">>, exp |-> 0]>>
       ELSE <<>>

\* dec2flt parse_number: the whole of body must be consumed
parse_number(body, neg) ==
    LET n1 == SpanDigits(body, 1)
        hasDot == n1 + 1 <= Len(body) /\ body[n1 + 1] = "."
        n2 == IF hasDot THEN SpanDigits(body, n1 + 2) ELSE 0
        pos == n1 + 1 + (IF hasDot THEN 1 + n2 ELSE 0)
        mant == SubSeq(body, 1, n1)
                  \o (IF hasDot THEN SubSeq(body, n1 + 2, n1 + 1 + n2) ELSE <<>>)
        hasExp == pos <= Len(body) /\ body[pos] \in {"e", "E"}
        hasESign == hasExp /\ pos + 1 <= Len(body) /\ body[pos + 1] \in {"+", "-"}
        eStart == pos + 1 + (IF hasESign THEN 1 ELSE 0)
        n3 == IF hasExp THEN SpanDigits(body, eStart) ELSE 0
        eVal == ToInt(SubSeq(body, eStart, eStart + n3 - 1))
        e == IF hasESign /\ body[pos + 1] = "-" THEN 0 - eVal ELSE eVal
    IN IF n1 + n2 = 0 THEN <<>>
       ELSE IF pos > Len(body) THEN <<NormFloat(neg, mant, 0 - n2)>>
       ELSE IF hasExp /\ n3 > 0 /\ eStart + n3 > Len(body)
            THEN <<NormFloat(neg, mant, e - n2)>>
       ELSE <<>>

\* x.parse::<f64>()
parse_f64(s) ==
    IF s = <<>> THEN <<>>
    ELSE LET neg == Head(s) = "-"
             body == IF Head(s) \in {"+", "-"} THEN Tail(s) ELSE s
         IN IF body = <<>> THEN <<>>
            ELSE IF parse_number(body, neg) # <<>> THEN parse_number(body, neg)
            ELSE parse_inf_nan(body, neg)

\* Duration::from_micros(us): whole seconds (digit string) and nanoseconds
from_micros(us) ==
    LET n == Len(us)
    IN [secs |-> IF n > 6 THEN SubSeq(us, 1, n - 6) ELSE <<"0">>,
        nanos |-> ToInt(SubSeq(us, IF n > 6 THEN n - 5 ELSE 1, n)) * 1000]

(***************************************************************************)
(* String literals of the match arms of the pump (runner.rs 135-191).      *)
(***************************************************************************)
\* the key "frame"
K_frame == <<"f", "r", "a", "m", "e">>
\* the key "fps"
K_fps == <<"f", "p", "s">>
\* the key "total_size"
K_total_size == <<"t", "o", "t", "a", "l", "_", "s", "i", "z", "e">>
\* the key "out_time_us"
K_out_time_us == <<"o", "u", "t", "_", "t", "i", "m", "e", "_", "u", "s">>
\* the key "dup_frames"
K_dup_frames == <<"d", "u", "p", "_", "f", "r", "a", "m", "e", "s">>
\* the key "drop_frames"
K_drop_frames == <<"d", "r", "o", "p", "_", "f", "r", "a", "m", "e", "s">>
\* the key "speed"
K_speed == <<"s", "p", "e", "e", "d">>
\* the key "progress"
K_progress == <<"p", "r", "o", "g", "r", "e", "s", "s">>
\* the value "N/A"
V_NA == <<"N", "/", "A">>
\* the value "continue"
V_continue == <<"c", "o", "n", "t", "i", "n", "u", "e">>
\* the value "end"
V_end == <<"e", "n", "d">>

(***************************************************************************)
(* The lines the subprocess may put on the reporting connection, as        *)
(* read_line returns them (terminating newline included).                  *)
(***************************************************************************)
\* "frame=1\n"
L_frame_1 == <<"f", "r", "a", "m", "e", "=", "1", "\n">>
\* "frame=  2\n"
L_frame_sp2 == <<"f", "r", "a", "m", "e", "=", " ", " ", "2", "\n">>
\* "frame=N/A\n"
L_frame_NA == <<"f", "r", "a", "m", "e", "=", "N", "/", "A", "\n">>
\* "frame=-1\n"
L_frame_neg == <<"f", "r", "a", "m", "e", "=", "-", "1", "\n">>
\* "fps=24.0\n"
L_fps_24 == <<"f", "p", "s", "=", "2", "4", ".", "0", "\n">>
\* "fps=\n"
L_fps_empty == <<"f", "p", "s", "=", "\n">>
\* "total_size=18446744073709551616\n"
L_total_size_over ==
    <<"t", "o", "t", "a", "l", "_", "s", "i", "z", "e", "=", "1", "8", "4",
      "4", "6", "7", "4", "4", "0", "7", "3", "7", "0", "9", "5", "5", "1",
      "6", "1", "6", "\n">>
\* "out_time_us=1500000\n"
L_out_time_us ==
    <<"o", "u", "t", "_", "t", "i", "m", "e", "_", "u", "s", "=", "1", "5",
      "0", "0", "0", "0", "0", "\n">>
\* "out_time_us=1.5\n"
L_out_time_us_bad ==
    <<"o", "u", "t", "_", "t", "i", "m", "e", "_", "u", "s", "=", "1", ".",
      "5", "\n">>
\* "dup_frames=+\n"
L_dup_frames_bad ==
    <<"d", "u", "p", "_", "f", "r", "a", "m", "e", "s", "=", "+", "\n">>
\* "drop_frames=0\n"
L_drop_frames_0 ==
    <<"d", "r", "o", "p", "_", "f", "r", "a", "m", "e", "s", "=", "0", "\n">>
\* "drop_frames=1e3\n"
L_drop_frames_bad ==
    <<"d", "r", "o", "p", "_", "f", "r", "a", "m", "e", "s", "=", "1", "e",
      "3", "\n">>
\* "speed=1.02x\n"
L_speed == <<"s", "p", "e", "e", "d", "=", "1", ".", "0", "2", "x", "\n">>
\* "speed=\n"
L_speed_empty == <<"s", "p", "e", "e", "d", "=", "\n">>
\* "speed=x\n"
L_speed_x == <<"s", "p", "e", "e", "d", "=", "x", "\n">>
\* "progress=continue\n"
L_progress_continue ==
    <<"p", "r", "o", "g", "r", "e", "s", "s", "=", "c", "o", "n", "t", "i",
      "n", "u", "e", "\n">>
\* "progress=end\n"
L_progress_end ==
    <<"p", "r", "o", "g", "r", "e", "s", "s", "=", "e", "n", "d", "\n">>
\* "progress=paused\n"
L_progress_paused ==
    <<"p", "r", "o", "g", "r", "e", "s", "s", "=", "p", "a", "u", "s", "e",
      "d", "\n">>
\* "noequalssign\n"
L_noequalssign ==
    <<"n", "o", "e", "q", "u", "a", "l", "s", "s", "i", "g", "n", "\n">>
\* "\n"
L_blank == <<"\n">>
\* "  \n"
L_blank_sp == <<" ", " ", "\n">>
\* "bitrate=128kbits/s=\n"
L_bitrate ==
    <<"b", "i", "t", "r", "a", "t", "e", "=", "1", "2", "8", "k", "b", "i",
      "t", "s", "/", "s", "=", "\n">>

Lines ==
    {L_frame_1, L_frame_sp2, L_frame_NA, L_frame_neg, L_fps_24, L_fps_empty,
     L_total_size_over, L_out_time_us, L_out_time_us_bad, L_dup_frames_bad,
     L_drop_frames_0, L_drop_frames_bad, L_speed, L_speed_empty, L_speed_x,
     L_progress_continue, L_progress_end, L_progress_paused, L_noequalssign,
     L_blank, L_blank_sp, L_bitrate}

\* what read_line may leave in the buffer when it returns Err: nothing, or
\* the bytes of an incomplete line that arrived before the failure
P_frame_1 == SubSeq(L_frame_1, 1, Len(L_frame_1) - 1)
P_progress_continue == SubSeq(L_progress_continue, 1, Len(L_progress_continue) - 1)

PartialLines == {<<>>, P_frame_1, P_progress_continue}

(***************************************************************************)
(* The result stream: futures::channel::mpsc::unbounded().  open is the    *)
(* channel's open flag (cleared by close_channel, by dropping the last     *)
(* sender and by dropping the receiver); queue holds the items sent and    *)
(* not yet received.                                                       *)
(***************************************************************************)
\* Result<Progress> items
OkItem(p) == [kind |-> "Ok", val |-> p]
IoError == [kind |-> "IoError", val |-> <<>>]
KeyValueParseError(line) == [kind |-> "KeyValueParseError", val |-> line]
UnknownStatusError(x) == [kind |-> "UnknownStatusError", val |-> x]
OtherParseError(x) == [kind |-> "OtherParseError", val |-> x]

\* mpsc::unbounded()
unbounded == [open |-> TRUE, queue |-> <<>>]

\* tx.send(item).await and tx.feed(item).await: the item is queued if the
\* channel is open, and dropped with a SendError (ignored) otherwise
send_await(ch, item) ==
    IF ch.open THEN [ch EXCEPT !.queue = Append(@, item)] ELSE ch

\* `let _ = tx.send(item);` and `let _ = tx.feed(item);` without .await: the
\* future is created and dropped without ever being polled, so nothing is sent
unpolled(ch, item) == ch

\* tx.close_channel()
close_channel(ch) == [ch EXCEPT !.open = FALSE]

\* Drop of the only UnboundedSender (the pump task unwinding or returning)
drop_sender(ch) == [ch EXCEPT !.open = FALSE]

\* Variant of handle_parse_error that forgets to close the channel.
handle_parse_error_noclose(ch, x) == send_await(ch, OtherParseError(x))

\* async fn handle_parse_error
handle_parse_error(ch, x) == close_channel(send_await(ch, OtherParseError(x)))

(***************************************************************************)
(* The accumulator and one iteration of the pump loop.                     *)
(***************************************************************************)
\* Progress::default()
Default ==
    [frame |-> None, fps |-> None, total_size |-> None, out_time |-> None,
     dup_frames |-> None, drop_frames |-> None, speed |-> None,
     status |-> "Continue"]

\* the pump's state after handling one line: accumulator, sender, position
Step(p, ch, pc) == [progress |-> p, tx |-> ch, pc |-> pc]

\* Variant of field_u64 in which N/A leaves the field as it was.
field_u64_keep_on_NA(p, ch, field, value) ==
    IF value = V_NA THEN Step(p, ch, "run")
    ELSE IF parse_u64(value) # <<>>
         THEN Step([p EXCEPT ![field] = Some(parse_u64(value)[1])], ch, "run")
    ELSE Step(p, handle_parse_error(ch, value), "run")

\* match arms "frame", "total_size", "dup_frames", "drop_frames"
field_u64(p, ch, field, value) ==
    IF value = V_NA THEN Step([p EXCEPT ![field] = None], ch, "run")
    ELSE IF parse_u64(value) # <<>>
         THEN Step([p EXCEPT ![field] = Some(parse_u64(value)[1])], ch, "run")
    ELSE Step(p, handle_parse_error(ch, value), "run")

\* match arm "fps"
field_fps(p, ch, value) ==
    IF value = V_NA THEN Step([p EXCEPT !.fps = None], ch, "run")
    ELSE IF parse_f64(value) # <<>>
         THEN Step([p EXCEPT !.fps = Some(parse_f64(value)[1])], ch, "run")
    ELSE Step(p, handle_parse_error(ch, value), "run")

\* match arm "out_time_us"
field_out_time(p, ch, value) ==
    IF value = V_NA THEN Step([p EXCEPT !.out_time = None], ch, "run")
    ELSE IF parse_u64(value) # <<>>
         THEN Step([p EXCEPT !.out_time = Some(from_micros(parse_u64(value)[1]))],
                   ch, "run")
    ELSE Step(p, handle_parse_error(ch, value), "run")

\* match arm "speed": &value[..(s.len() - 1)] panics on the empty value
\* (usize underflow, or an out-of-range slice end when overflow checks are
\* off); the unwinding task drops tx
field_speed(p, ch, value) ==
    IF value = V_NA THEN Step([p EXCEPT !.speed = None], ch, "run")
    ELSE IF Len(value) = 0 THEN Step(p, drop_sender(ch), "panicked")
    ELSE LET num == SubSeq(value, 1, Len(value) - 1)
         IN IF parse_f64(num) # <<>>
            THEN Step([p EXCEPT !.speed = Some(parse_f64(num)[1])], ch, "run")
            ELSE Step(p, handle_parse_error(ch, num), "run")

\* Variant of on_progress that maps "end" to Status::Continue.
on_progress_end_as_continue(p, ch, value) ==
    LET known == value \in {V_continue, V_end}
        ch1 == IF known THEN ch
               ELSE close_channel(unpolled(ch, UnknownStatusError(value)))
        ch2 == send_await(ch1, OkItem([p EXCEPT !.status = "Continue"]))
    IN Step(Default, IF ch1.open THEN ch2 ELSE close_channel(ch2), "run")

\* Variant of on_progress that does not close the channel on an unknown status.
on_progress_noclose(p, ch, value) ==
    LET status == IF value = V_continue THEN "Continue" ELSE "End"
        ch2 == send_await(ch, OkItem([p EXCEPT !.status = status]))
    IN Step(Default, IF ch.open THEN ch2 ELSE close_channel(ch2), "run")

\* Variant of on_progress that keeps the accumulator after the publish.
on_progress_noreset(p, ch, value) ==
    LET known == value \in {V_continue, V_end}
        status == IF value = V_continue THEN "Continue" ELSE "End"
        ch1 == IF known THEN ch
               ELSE close_channel(unpolled(ch, UnknownStatusError(value)))
        ch2 == send_await(ch1, OkItem([p EXCEPT !.status = status]))
    IN Step([p EXCEPT !.status = status],
            IF ch1.open THEN ch2 ELSE close_channel(ch2), "run")

\* match arm "progress"
on_progress(p, ch, value) ==
    LET known == value \in {V_continue, V_end}
        \* an unknown value compiles to Status::End
        status == IF value = V_continue THEN "Continue" ELSE "End"
        ch1 == IF known THEN ch
               ELSE close_channel(unpolled(ch, UnknownStatusError(value)))
        \* tx.feed(Ok(progress)).await; a disconnected error closes the channel
        ch2 == send_await(ch1, OkItem([p EXCEPT !.status = status]))
    IN Step(Default, IF ch1.open THEN ch2 ELSE close_channel(ch2), "run")

\* Variant of handle_line that treats an unrecognized key as a parse failure.
handle_line_unknown_key_error(p, ch, line) ==
    LET kv == parse_line(line)
    IN IF kv = None
       THEN Step(p, close_channel(unpolled(ch, KeyValueParseError(line))), "run")
       ELSE LET key == kv[1][1]
                value == kv[1][2]
            IN CASE key = K_frame -> field_u64(p, ch, "frame", value)
                 [] key = K_fps -> field_fps(p, ch, value)
                 [] key = K_total_size -> field_u64(p, ch, "total_size", value)
                 [] key = K_out_time_us -> field_out_time(p, ch, value)
                 [] key = K_dup_frames -> field_u64(p, ch, "dup_frames", value)
                 [] key = K_drop_frames -> field_u64(p, ch, "drop_frames", value)
                 [] key = K_speed -> field_speed(p, ch, value)
                 [] key = K_progress -> on_progress(p, ch, value)
                 [] OTHER -> Step(p, handle_parse_error(ch, value), "run")

\* Variant of handle_line that skips a line holding only whitespace.
handle_line_skips_blank(p, ch, line) ==
    LET kv == parse_line(line)
    IN IF trim(line) = <<>> THEN Step(p, ch, "run")
       ELSE IF kv = None
       THEN Step(p, close_channel(unpolled(ch, KeyValueParseError(line))), "run")
       ELSE LET key == kv[1][1]
                value == kv[1][2]
            IN CASE key = K_frame -> field_u64(p, ch, "frame", value)
                 [] key = K_fps -> field_fps(p, ch, value)
                 [] key = K_total_size -> field_u64(p, ch, "total_size", value)
                 [] key = K_out_time_us -> field_out_time(p, ch, value)
                 [] key = K_dup_frames -> field_u64(p, ch, "dup_frames", value)
                 [] key = K_drop_frames -> field_u64(p, ch, "drop_frames", value)
                 [] key = K_speed -> field_speed(p, ch, value)
                 [] key = K_progress -> on_progress(p, ch, value)
                 [] OTHER -> Step(p, ch, "run")

\* `if let Some((key, value)) = parse_line(&line) { match key ... } else ...`
handle_line(p, ch, line) ==
    LET kv == parse_line(line)
    IN IF kv = None
       THEN Step(p, close_channel(unpolled(ch, KeyValueParseError(line))), "run")
       ELSE LET key == kv[1][1]
                value == kv[1][2]
            IN CASE key = K_frame -> field_u64(p, ch, "frame", value)
                 [] key = K_fps -> field_fps(p, ch, value)
                 [] key = K_total_size -> field_u64(p, ch, "total_size", value)
                 [] key = K_out_time_us -> field_out_time(p, ch, value)
                 [] key = K_dup_frames -> field_u64(p, ch, "dup_frames", value)
                 [] key = K_drop_frames -> field_u64(p, ch, "drop_frames", value)
                 [] key = K_speed -> field_speed(p, ch, value)
                 [] key = K_progress -> on_progress(p, ch, value)
                 [] OTHER -> Step(p, ch, "run")

\* Variant of on_eof without the break.
on_eof_nobreak(p, ch) == handle_line(p, close_channel(ch), <<>>)

\* Ok(0): close the channel and leave the loop; the task ends and drops tx
on_eof(p, ch) == Step(p, drop_sender(close_channel(ch)), "done")

\* Err(e): publish the error and close the channel; there is no break, so
\* the line buffer goes on to parse_line and the loop continues
on_read_err(p, ch, line) ==
    handle_line(p, close_channel(send_await(ch, IoError)), line)

(***************************************************************************)
(* The job description (src/src/lib.rs): Parameter, File, FfmpegBuilder    *)
(* and the argument vector of the Command that to_command builds.          *)
(***************************************************************************)
\* Parameter::Single(name)
Single(name) == [tag |-> "Single", k |-> name, v |-> <<>>]

\* Parameter::KeyValue(key, value)
KeyValue(key, value) == [tag |-> "KeyValue", k |-> key, v |-> value]

\* File::new(url)
File_new(url) == [url |-> url, options |-> <<>>]

\* File::option
File_option(f, p) == [f EXCEPT !.options = Append(@, p)]

\* FfmpegBuilder::new (options, inputs, outputs)
FfmpegBuilder_new == [options |-> <<>>, inputs |-> <<>>, outputs |-> <<>>]

\* FfmpegBuilder::option
option(b, p) == [b EXCEPT !.options = Append(@, p)]

\* FfmpegBuilder::input
input(b, f) == [b EXCEPT !.inputs = Append(@, f)]

\* FfmpegBuilder::output
output(b, f) == [b EXCEPT !.outputs = Append(@, f)]

\* Parameter::push_to: the arms of the match, in order
Parameter_push_to(cmd, p) ==
    IF p.tag = "Single" /\ Len(p.k) > 0 THEN Append(cmd, <<"-">> \o p.k)
    ELSE IF p.tag = "KeyValue" THEN Append(Append(cmd, <<"-">> \o p.k), p.v)
    ELSE Append(cmd, <<>>)

RECURSIVE push_options(_, _)
\* `for option in options { option.push_to(command) }`
push_options(cmd, opts) ==
    IF opts = <<>> THEN cmd
    ELSE push_options(Parameter_push_to(cmd, Head(opts)), Tail(opts))

\* Variant of File_push_to that puts the marker after the url.
File_push_to_marker_last(cmd, f, isInput) ==
    LET c1 == Append(push_options(cmd, f.options), f.url)
    IN IF isInput THEN Append(c1, <<"-", "i">>) ELSE c1

\* File::push_to
File_push_to(cmd, f, isInput) ==
    LET c1 == push_options(cmd, f.options)
        c2 == IF isInput THEN Append(c1, <<"-", "i">>) ELSE c1
    IN Append(c2, f.url)

RECURSIVE push_files(_, _, _)
\* `for input in self.inputs { input.push_to(&mut command, true) }` and the
\* same loop over the outputs with false
push_files(cmd, files, isInput) ==
    IF files = <<>> THEN cmd
    ELSE push_files(File_push_to(cmd, Head(files), isInput), Tail(files), isInput)

\* FfmpegBuilder::to_command: the arguments of the Command
to_command(b) ==
    push_files(push_files(push_options(<<>>, b.options), b.inputs, TRUE),
               b.outputs, FALSE)

DigitChar(d) ==
    CASE d = 0 -> "0" [] d = 1 -> "1" [] d = 2 -> "2" [] d = 3 -> "3"
      [] d = 4 -> "4" [] d = 5 -> "5" [] d = 6 -> "6" [] d = 7 -> "7"
      [] d = 8 -> "8" [] d = 9 -> "9"

RECURSIVE ToDec(_)
\* Display of a u16: decimal, no padding
ToDec(n) ==
    IF n < 10 THEN <<DigitChar(n)>>
    ELSE ToDec(n \div 10) \o <<DigitChar(n % 10)>>

\* the literal part of format!("tcp://127.0.0.1:{}", port)
TcpPrefix ==
    <<"t", "c", "p", ":", "/", "/", "1", "2", "7", ".", "0", ".", "0", ".", "1",
      ":">>

\* format!("tcp://127.0.0.1:{}", port)
prog_url(p) == TcpPrefix \o ToDec(p)

\* Parameter::KeyValue("progress", &prog_url)
progress_option(p) == KeyValue(K_progress, prog_url(p))

(***************************************************************************)
(* Job descriptions the caller may build.                                  *)
(***************************************************************************)
S_y == <<"y">>
S_t == <<"t">>
S_10 == <<"1", "0">>
S_vcodec == <<"v", "c", "o", "d", "e", "c">>
S_libx265 == <<"l", "i", "b", "x", "2", "6", "5">>
S_in_mkv == <<"i", "n", ".", "m", "k", "v">>
S_out_mp4 == <<"o", "u", "t", ".", "m", "p", "4">>
S_a == <<"a">>

Params == {Single(S_y), Single(<<>>), KeyValue(S_t, S_10)}

Files ==
    {File_new(S_in_mkv),
     File_option(File_new(S_out_mp4), KeyValue(S_vcodec, S_libx265)),
     File_option(File_option(File_new(S_a), Single(<<>>)), Single(S_y))}

\* the ports the operating system may assign to 127.0.0.1:0
Ports == {1024, 40000, 65535}

\* the job of the crate's documentation: -y -i in.mkv -vcodec libx265 out.mp4
ExampleBuilder ==
    output(input(option(FfmpegBuilder_new, Single(S_y)), File_new(S_in_mkv)),
           File_option(File_new(S_out_mp4), KeyValue(S_vcodec, S_libx265)))

(***************************************************************************)
(* State.                                                                  *)
(***************************************************************************)
VARIABLES
    runpc,       \* position of the caller and of FfmpegBuilder::run, or how it
                 \* returned
    ret,         \* what run() returned: "pending", "Ok" (an Ffmpeg), "IoError"
    listener,    \* TRUE once TcpListener::bind succeeded
    child,       \* TRUE once command.spawn() succeeded
    pumppc,      \* the spawned task: "idle" (not spawned), "run", "done", "panicked"
    progress,    \* the task's accumulator
    chan,        \* the channel (tx and rx share it)
    rx,          \* Ffmpeg::progress: "none", "alive", "ended" (saw None), "dropped"
    peerClosed,  \* the subprocess closed the connection: the next read returns Ok(0)
    published,   \* history: every item that entered the channel, in order
    readLog,     \* history: per read, its class, whether the channel was open
                 \* and how many items had been published before it
    lastLine,    \* history: the line buffer of the latest read
    expected,    \* history: the fields the lines of the current interval announce
    rewritten,   \* history: the fields whose value of this interval was replaced
    accepts,     \* history: number of listener.accept() calls made
    builder,     \* the FfmpegBuilder (self)
    user,        \* history: the builder as the caller passed it to run()
    osPort,      \* the port the operating system assigns to 127.0.0.1:0
    port,        \* listener.local_addr()?.port(), 0 before the bind
    args,        \* Option: the arguments of the Command built by to_command
    pin,         \* the argument of a direct call of parse_line
    pout         \* Option: what that call returned

buildVars == <<builder, user, osPort, port, args>>
parseVars == <<pin, pout>>

vars ==
    <<runpc, ret, listener, child, pumppc, progress, chan, rx, peerClosed,
      published, readLog, lastLine, expected, rewritten, accepts, buildVars,
      parseVars>>

runVars == <<runpc, ret, listener, child, accepts, buildVars>>
pumpVars ==
    <<pumppc, progress, chan, published, readLog, lastLine, expected,
      rewritten>>

\* before `mpsc::unbounded()` there is no channel
NoChannel == [open |-> FALSE, queue |-> <<>>]

(***************************************************************************)
(* Classes of input lines, by enumeration (used by the history variables   *)
(* and the properties only).                                               *)
(***************************************************************************)
ContinueLines == {L_progress_continue}
EndLines == {L_progress_end}
UnknownStatusLines == {L_progress_paused}
NoEqLines == {L_noequalssign, L_blank, L_blank_sp}
BlankLines == {L_blank, L_blank_sp}
NALines == {L_frame_NA}
IgnoredLines == {L_bitrate}
BadValueLines ==
    {L_frame_neg, L_fps_empty, L_total_size_over, L_out_time_us_bad,
     L_dup_frames_bad, L_drop_frames_bad, L_speed_empty, L_speed_x}

Class(l) ==
    CASE l \in ContinueLines -> "continue"
      [] l \in EndLines -> "end"
      [] l \in UnknownStatusLines -> "unknown_status"
      [] l \in NoEqLines -> "no_eq"
      [] l \in BadValueLines -> "bad_value"
      [] OTHER -> "other"

\* the accumulator the lines of an interval announce, line by line: a field
\* line sets its field, N/A clears it, a progress line starts a new interval
ExpectedAfter(e, l) ==
    CASE l \in {L_frame_1, P_frame_1} -> [e EXCEPT !.frame = Some(<<"1">>)]
      [] l = L_frame_sp2 -> [e EXCEPT !.frame = Some(<<"2">>)]
      [] l = L_frame_NA -> [e EXCEPT !.frame = None]
      [] l = L_fps_24 ->
           [e EXCEPT !.fps = Some([neg |-> FALSE, mant |-> <<"2", "4">>, exp |-> 0])]
      [] l = L_out_time_us ->
           [e EXCEPT !.out_time = Some([secs |-> <<"1">>, nanos |-> 500000000])]
      [] l = L_drop_frames_0 -> [e EXCEPT !.drop_frames = Some(<<"0">>)]
      [] l = L_speed ->
           [e EXCEPT !.speed =
               Some([neg |-> FALSE, mant |-> <<"1", "0", "2">>, exp |-> 0 - 2])]
      [] l \in {L_progress_continue, L_progress_end, L_progress_paused,
                 P_progress_continue} -> Default
      [] OTHER -> e

FieldNames ==
    {"frame", "fps", "total_size", "out_time", "dup_frames", "drop_frames",
     "speed"}

\* the fields that had a value in the current interval and were given
\* another value, or cleared, by a later line of the same interval
RewrittenAfter(w, e, l) ==
    IF l \in {L_progress_continue, L_progress_end, L_progress_paused,
               P_progress_continue}
    THEN {}
    ELSE w \cup {f \in FieldNames :
                    e[f] # None /\ ExpectedAfter(e, l)[f] # e[f]}

\* the items a step added to the channel
Added(old, new) == SubSeq(new.queue, Len(old.queue) + 1, Len(new.queue))

(***************************************************************************)
(* FfmpegBuilder::run up to the spawn of the pump task.                    *)
(***************************************************************************)
\* the state before the caller has done anything
InitCommon ==
    /\ ret = "pending"
    /\ listener = FALSE
    /\ child = FALSE
    /\ pumppc = "idle"
    /\ progress = Default
    /\ chan = NoChannel
    /\ rx = "none"
    /\ peerClosed = FALSE
    /\ published = <<>>
    /\ readLog = <<>>
    /\ lastLine = <<>>
    /\ expected = Default
    /\ rewritten = {}
    /\ accepts = 0
    /\ port = 0
    /\ args = None
    /\ pout = None

\* run() is called on a builder as FfmpegBuilder::new() returns it
Init ==
    /\ InitCommon
    /\ runpc = "bind"
    /\ builder = FfmpegBuilder_new
    /\ user = FfmpegBuilder_new
    /\ osPort = 1024
    /\ pin = <<>>

\* Variant of BindOk that puts the progress option before the caller's options.
BindOk_option_first ==
    /\ runpc = "bind"
    /\ runpc' = "spawn"
    /\ listener' = TRUE
    /\ port' = osPort
    /\ builder' = [builder EXCEPT !.options = <<progress_option(osPort)>> \o @]
    /\ UNCHANGED <<ret, child, pumppc, progress, chan, rx, peerClosed,
                   published, readLog, lastLine, expected, rewritten, accepts,
                   user, osPort, args, parseVars>>

\* TcpListener::bind and local_addr succeed; the progress option is pushed
BindOk ==
    /\ runpc = "bind"
    /\ runpc' = "spawn"
    /\ listener' = TRUE
    /\ port' = osPort
    /\ builder' = option(builder, progress_option(osPort))
    /\ UNCHANGED <<ret, child, pumppc, progress, chan, rx, peerClosed,
                   published, readLog, lastLine, expected, rewritten, accepts,
                   user, osPort, args, parseVars>>

\* `TcpListener::bind(..).await?` or `local_addr()?` returns the error
BindErr ==
    /\ runpc = "bind"
    /\ runpc' = "ret_bind_err"
    /\ ret' = "IoError"
    /\ UNCHANGED <<listener, child, pumppc, progress, chan, rx, peerClosed,
                   published, readLog, lastLine, expected, rewritten, accepts,
                   buildVars, parseVars>>

\* self.to_command() and command.spawn(), which succeeds
SpawnOk ==
    /\ runpc = "spawn"
    /\ runpc' = "accept"
    /\ args' = Some(to_command(builder))
    /\ child' = TRUE
    /\ UNCHANGED <<ret, listener, pumppc, progress, chan, rx, peerClosed,
                   published, readLog, lastLine, expected, rewritten, accepts,
                   builder, user, osPort, port, parseVars>>

\* Variant of SpawnErr that goes on to accept although the spawn failed.
SpawnErr_ignored ==
    /\ runpc = "spawn"
    /\ runpc' = "accept"
    /\ args' = Some(to_command(builder))
    /\ UNCHANGED <<ret, listener, child, pumppc, progress, chan, rx,
                   peerClosed, published, readLog, lastLine, expected,
                   rewritten, accepts, builder, user, osPort, port, parseVars>>

\* self.to_command() and `command.spawn()?`, which returns the error
SpawnErr ==
    /\ runpc = "spawn"
    /\ runpc' = "ret_spawn_err"
    /\ ret' = "IoError"
    /\ args' = Some(to_command(builder))
    /\ UNCHANGED <<listener, child, pumppc, progress, chan, rx, peerClosed,
                   published, readLog, lastLine, expected, rewritten, accepts,
                   builder, user, osPort, port, parseVars>>

\* listener.accept() succeeds: the channel is created, the pump task is
\* spawned and Ok(Ffmpeg { progress: rx, process: child }) is returned
AcceptOk ==
    /\ runpc = "accept"
    /\ runpc' = "ret_ok"
    /\ ret' = "Ok"
    /\ accepts' = accepts + 1
    /\ chan' = unbounded
    /\ rx' = "alive"
    /\ pumppc' = "run"
    /\ progress' = Default
    /\ UNCHANGED <<listener, child, peerClosed, published, readLog, lastLine,
                   expected, rewritten, buildVars, parseVars>>

\* Variant of AcceptErr that reports the failure as an item of a result stream.
AcceptErr_on_stream ==
    /\ runpc = "accept"
    /\ runpc' = "ret_accept_err"
    /\ ret' = "Ok"
    /\ accepts' = accepts + 1
    /\ chan' = close_channel(send_await(unbounded, IoError))
    /\ published' = <<IoError>>
    /\ rx' = "alive"
    /\ UNCHANGED <<listener, child, pumppc, progress, peerClosed, readLog,
                   lastLine, expected, rewritten, buildVars, parseVars>>

\* `listener.accept().await?` returns the error: no channel, no task
AcceptErr ==
    /\ runpc = "accept"
    /\ runpc' = "ret_accept_err"
    /\ ret' = "IoError"
    /\ accepts' = accepts + 1
    /\ UNCHANGED <<listener, child, pumppc, progress, chan, rx, peerClosed,
                   published, readLog, lastLine, expected, rewritten,
                   buildVars, parseVars>>

(***************************************************************************)
(* The pump task: one action per outcome of reader.read_line(&mut line).   *)
(***************************************************************************)
\* the state after one loop iteration whose outcome is r
Iterate(r, cls, line) ==
    /\ progress' = r.progress
    /\ chan' = r.tx
    /\ pumppc' = r.pc
    /\ published' = published \o Added(chan, r.tx)
    /\ readLog' = Append(readLog, [cls |-> cls, open |-> chan.open,
                                    npub |-> Len(published)])
    /\ lastLine' = line
    /\ expected' = ExpectedAfter(expected, line)
    /\ rewritten' = RewrittenAfter(rewritten, expected, line)
    /\ UNCHANGED <<runVars, rx, peerClosed, parseVars>>

\* read_line returns Ok(n), n > 0, with the line l
ReadLine(l) ==
    /\ pumppc = "run"
    /\ ~peerClosed
    /\ Len(readLog) < MaxReads
    /\ Iterate(handle_line(progress, chan, l), Class(l), l)

\* read_line returns Err(e), leaving q in the line buffer
ReadErr(q) ==
    /\ pumppc = "run"
    /\ ~peerClosed
    /\ Len(readLog) < MaxReads
    /\ Iterate(on_read_err(progress, chan, q), "io_error", q)

\* read_line returns Ok(0)
ReadEof ==
    /\ pumppc = "run"
    /\ peerClosed
    /\ LET r == on_eof(progress, chan)
       IN /\ progress' = r.progress
          /\ chan' = r.tx
          /\ pumppc' = r.pc
          /\ published' = published \o Added(chan, r.tx)
    /\ UNCHANGED <<runVars, rx, peerClosed, readLog, lastLine, expected,
                   rewritten, parseVars>>

(***************************************************************************)
(* The environment: the subprocess and the consumer of Ffmpeg::progress.   *)
(***************************************************************************)
\* the subprocess closes its end; everything it sent before has been read
PeerClose ==
    /\ pumppc # "idle"
    /\ ~peerClosed
    /\ peerClosed' = TRUE
    /\ UNCHANGED <<runVars, pumpVars, rx, parseVars>>

\* progress.next() yields Some(item)
Recv ==
    /\ rx = "alive"
    /\ chan.queue # <<>>
    /\ chan' = [chan EXCEPT !.queue = Tail(@)]
    /\ UNCHANGED <<runVars, pumppc, progress, rx, peerClosed, published,
                   readLog, lastLine, expected, rewritten, parseVars>>

\* progress.next() yields None: the channel is closed and drained
RecvEnd ==
    /\ rx = "alive"
    /\ chan.queue = <<>>
    /\ ~chan.open
    /\ rx' = "ended"
    /\ UNCHANGED <<runVars, pumpVars, peerClosed, parseVars>>

\* the consumer drops the receiver: the channel closes and is drained
DropRx ==
    /\ rx = "alive"
    /\ rx' = "dropped"
    /\ chan' = [open |-> FALSE, queue |-> <<>>]
    /\ UNCHANGED <<runVars, pumppc, progress, peerClosed, published, readLog,
                   lastLine, expected, rewritten, parseVars>>

(***************************************************************************)
(* The caller building a job description, rendering it or running it.      *)
(***************************************************************************)
Parts(b) == Len(b.options) + Len(b.inputs) + Len(b.outputs)

\* what a step of the caller leaves alone
callerFrame ==
    <<ret, listener, child, pumppc, progress, chan, rx, peerClosed, published,
      readLog, lastLine, expected, rewritten, accepts, port, parseVars>>

\* builder.option(p)
AddOption(p) ==
    /\ runpc = "build"
    /\ Parts(builder) < MaxParts
    /\ builder' = option(builder, p)
    /\ UNCHANGED <<runpc, user, osPort, args, callerFrame>>

\* builder.input(f)
AddInput(f) ==
    /\ runpc = "build"
    /\ Parts(builder) < MaxParts
    /\ builder' = input(builder, f)
    /\ UNCHANGED <<runpc, user, osPort, args, callerFrame>>

\* builder.output(f)
AddOutput(f) ==
    /\ runpc = "build"
    /\ Parts(builder) < MaxParts
    /\ builder' = output(builder, f)
    /\ UNCHANGED <<runpc, user, osPort, args, callerFrame>>

\* builder.to_command(), called directly
ToCommand ==
    /\ runpc = "build"
    /\ runpc' = "rendered"
    /\ args' = Some(to_command(builder))
    /\ UNCHANGED <<builder, user, osPort, callerFrame>>

\* builder.run() is called; pt is the port the operating system will assign
CallRun(pt) ==
    /\ runpc = "build"
    /\ runpc' = "bind"
    /\ user' = builder
    /\ osPort' = pt
    /\ UNCHANGED <<builder, args, callerFrame>>

\* the state before the caller has built anything
BuildInit ==
    /\ InitCommon
    /\ runpc = "build"
    /\ builder = FfmpegBuilder_new
    /\ user = FfmpegBuilder_new
    /\ osPort = 0
    /\ pin = <<>>

BuildNext ==
    \/ \E p \in Params : AddOption(p)
    \/ \E f \in Files : AddInput(f)
    \/ \E f \in Files : AddOutput(f)
    \/ ToCommand
    \/ \E pt \in Ports : CallRun(pt)
    \/ BindOk
    \/ BindErr
    \/ SpawnOk
    \/ SpawnErr

BuildSpec == BuildInit /\ [][BuildNext]_vars

(***************************************************************************)
(* parse_line called on its own.                                           *)
(***************************************************************************)
\* the characters the lines are made of
Alphabet == {" ", "=", "a", "\n"}

\* "  speed=1.02x  "
L_speed_padded ==
    <<" ", " ", "s", "p", "e", "e", "d", "=", "1", ".", "0", "2", "x", " ", " ">>

\* every line over Alphabet of at most MaxLineLen characters, and the lines
\* of the pump
ParseInputs ==
    UNION {[1..n -> Alphabet] : n \in 0..MaxLineLen} \cup Lines
        \cup {L_speed_padded}

ParseInit ==
    /\ InitCommon
    /\ runpc = "parse"
    /\ builder = FfmpegBuilder_new
    /\ user = FfmpegBuilder_new
    /\ osPort = 0
    /\ pin \in ParseInputs

\* parse_line(&pin)
Parse ==
    /\ runpc = "parse"
    /\ runpc' = "parsed"
    /\ pout' = Some(parse_line(pin))
    /\ UNCHANGED <<pin, ret, listener, child, pumppc, progress, chan, rx,
                   peerClosed, published, readLog, lastLine, expected,
                   rewritten, accepts, buildVars>>

ParseNext == Parse

ParseSpec == ParseInit /\ [][ParseNext]_vars

Next ==
    \/ BindOk
    \/ BindErr
    \/ SpawnOk
    \/ SpawnErr
    \/ AcceptOk
    \/ AcceptErr
    \/ \E l \in Lines : ReadLine(l)
    \/ \E q \in PartialLines : ReadErr(q)
    \/ ReadEof
    \/ PeerClose
    \/ Recv
    \/ RecvEnd
    \/ DropRx

Spec == Init /\ [][Next]_vars

\* the runtime polls the task again once the pending read is ready
LiveSpec == Spec /\ WF_vars(ReadEof)

(***************************************************************************)
(* Properties.                                                             *)
(***************************************************************************)
IsOk(item) == item.kind = "Ok"

\* the statuses of the snapshots published so far, in order
OkStatuses ==
    LET oks == SelectSeq(published, IsOk)
    IN [i \in 1..Len(oks) |-> oks[i].val.status]

IsOpenProgressRead(e) == e.open /\ e.cls \in {"continue", "end"}

\* the statuses announced by the progress lines read while the channel was open
ExpectedStatuses ==
    LET rs == SelectSeq(readLog, IsOpenProgressRead)
    IN [i \in 1..Len(rs) |-> IF rs[i].cls = "continue" THEN "Continue" ELSE "End"]

ErrorClasses == {"bad_value", "no_eq", "unknown_status", "io_error"}

\* the pump has met a parse failure, a format violation, an unknown status
\* or a read failure
ErrorSeen == \E i \in DOMAIN readLog : readLog[i].cls \in ErrorClasses

NumOk(items) == Len(SelectSeq(items, IsOk))

\* the latest read, when there is one
HasRead == Len(readLog) > 0
LastRead == readLog[Len(readLog)]

\* the substring handle_parse_error is given for each line of BadValueLines
Offending(l) ==
    CASE l = L_frame_neg -> <<"-", "1">>
      [] l = L_fps_empty -> <<>>
      [] l = L_total_size_over -> SubSeq(l, Len(K_total_size) + 2, Len(l) - 1)
      [] l = L_out_time_us_bad -> <<"1", ".", "5">>
      [] l = L_dup_frames_bad -> <<"+">>
      [] l = L_drop_frames_bad -> <<"1", "e", "3">>
      [] l = L_speed_empty -> <<>>
      [] l = L_speed_x -> <<>>

\* C1: the Ok snapshots published correspond one-to-one and in order to the
\* progress=continue / progress=end lines read while the stream was open,
\* each carrying the matching status.
C1_SnapshotsFollowProgressLines == OkStatuses = ExpectedStatuses

\* C1 witness: two intervals were published, Continue then End.
C1_Witness ==
    /\ OkStatuses = <<"Continue", "End">>
    /\ Len(readLog) = 3

\* C2: once the pump has detected a parse failure, a key-value format
\* violation, an unknown status or a read failure, no Ok snapshot is
\* published: neither by the step that detects it nor by any later step.
C2_NoSnapshotAfterError ==
    [][ErrorSeen' => NumOk(published') = NumOk(published)]_vars

\* C2 witness: a field was accumulated, progress=paused was read on an open
\* channel, and a further progress line was read after it.
C2_Witness ==
    /\ Len(readLog) = 3
    /\ readLog[1].cls = "other"
    /\ readLog[2].cls = "unknown_status" /\ readLog[2].open
    /\ readLog[3].cls = "continue"
    /\ NumOk(published) = 0

\* C3 (as claimed): a recognized key with a value that is neither N/A nor
\* parseable, read while the channel is open, publishes exactly one
\* OtherParseError carrying the offending substring and closes the channel,
\* and the pump does not abort without publishing it.
C3_BadValuePublishesParseError ==
    (HasRead /\ LastRead.cls = "bad_value" /\ LastRead.open)
        => /\ pumppc # "panicked"
           /\ Len(published) = LastRead.npub + 1
           /\ published[Len(published)] = OtherParseError(Offending(lastLine))
           /\ ~chan.open

\* C4 (as claimed): a line without "=", read while the channel is open,
\* publishes exactly one KeyValueParseError carrying the line and closes
\* the channel.
C4_NoEqPublishesKeyValueError ==
    (HasRead /\ LastRead.cls = "no_eq" /\ LastRead.open)
        => /\ Len(published) = LastRead.npub + 1
           /\ published[Len(published)] = KeyValueParseError(lastLine)
           /\ ~chan.open

\* C5 (as claimed): a progress line with an unknown value, read while the
\* channel is open, publishes exactly one UnknownStatusError and no
\* snapshot, and closes the channel.
C5_UnknownStatusPublishesError ==
    (HasRead /\ LastRead.cls = "unknown_status" /\ LastRead.open)
        => /\ Len(published) = LastRead.npub + 1
           /\ published[Len(published)].kind = "UnknownStatusError"
           /\ ~chan.open

\* C6: the published items hold at most one error item, it is the last
\* item, and the channel is closed once it is published (so that nothing
\* can follow it).
C6_ErrorItemIsLastAndCloses ==
    \A i \in DOMAIN published :
        ~IsOk(published[i]) => (i = Len(published) /\ ~chan.open)

\* C6 witness: a snapshot and then a parse error were published, and a
\* progress line read after the error was dropped.
C6_Witness ==
    /\ Len(published) = 2
    /\ published[2].kind = "OtherParseError"
    /\ HasRead /\ LastRead.cls = "continue" /\ ~LastRead.open

\* C7 (as claimed): no item is published after a snapshot with status End.
C7_NothingAfterEnd ==
    \A i \in DOMAIN published :
        (IsOk(published[i]) /\ published[i].val.status = "End")
            => i = Len(published)

\* C8: the zero-length read closes the channel, publishes nothing and ends
\* the loop; and once the subprocess has closed the connection the pump
\* eventually stops with the channel closed.
C8_EofClosesAndStops ==
    /\ [][(peerClosed /\ pumppc = "run" /\ pumppc' # "run")
            => (pumppc' = "done" /\ published' = published /\ ~chan'.open)]_vars
    /\ (peerClosed ~> (pumppc # "run" /\ ~chan.open))

\* C8 witness: the loop ended on the zero-length read with a half
\* accumulated interval, which was not published.
C8_Witness ==
    /\ pumppc = "done"
    /\ progress.frame # None
    /\ published = <<>>
    /\ HasRead /\ LastRead.open

\* C9 (as claimed): a read failure publishes one IoError, closes the
\* channel and is terminal for the pump.
C9_ReadErrorIsTerminal ==
    (HasRead /\ LastRead.cls = "io_error" /\ LastRead.open)
        => /\ Len(published) = LastRead.npub + 1
           /\ published[Len(published)] = IoError
           /\ ~chan.open
           /\ pumppc # "run"

\* C10 (as claimed): a failure to bind or to accept is one error item on
\* the result stream, which then closes.
C10_SetupFailureOnStream ==
    runpc \in {"ret_bind_err", "ret_accept_err"}
        => /\ rx # "none"
           /\ published = <<IoError>>
           /\ ~chan.open

\* C10 (amended): a failure to bind or to accept is returned by run() as
\* Err(IoError); no Ffmpeg handle, no result stream and no pump task exist,
\* and no item is ever published.
C10_SetupFailureIsReturned ==
    runpc \in {"ret_bind_err", "ret_accept_err"}
        => /\ ret = "IoError"
           /\ rx = "none"
           /\ pumppc = "idle"
           /\ published = <<>>

\* C10 witness: accept failed after the subprocess had been spawned.
C10_Witness == runpc = "ret_accept_err" /\ child /\ listener

\* C11 (as claimed): whatever the consumer does (reads, lags, never reads,
\* drops the receiver), the pump leaves its loop only on the zero-length
\* read after the subprocess closed the connection, and then it terminates
\* normally.
C11_PumpStopsOnlyAtEof ==
    pumppc \notin {"idle", "run"} => (peerClosed /\ pumppc = "done")

\* the status a progress line announces
StatusOf(l) == IF l \in EndLines THEN "End" ELSE "Continue"

\* C12: within an interval each field is last-write-wins and N/A clears it:
\* the accumulator always equals what the lines of the interval announce
\* field by field, a published snapshot carries exactly those fields, and a
\* step that reads an N/A line publishes nothing and leaves the channel as
\* it was.
C12_LastWriteWinsAndNAClears ==
    [][/\ progress' = expected'
       /\ NumOk(published') > NumOk(published)
            => published'[Len(published')] =
                   OkItem([expected EXCEPT !.status = StatusOf(lastLine')])
       /\ (Len(readLog') > Len(readLog) /\ lastLine' \in NALines)
            => (published' = published /\ chan' = chan /\ pumppc' = "run")]_vars

\* C12 witness: frame had a value in this interval, frame=N/A was read
\* on the open channel and cleared it, and another field of the interval
\* kept its value.
C12_Witness ==
    /\ lastLine = L_frame_NA
    /\ "frame" \in rewritten
    /\ progress.frame = None
    /\ progress.fps # None
    /\ chan.open

\* the lines whose key is progress
ProgressLines ==
    ContinueLines \cup EndLines \cup UnknownStatusLines \cup {P_progress_continue}

\* a read step has just handled a line of S
JustRead(S) == Len(readLog') > Len(readLog) /\ lastLine' \in S

\* C13: every step that handles a progress line leaves the accumulator with
\* all fields absent and status Continue, so nothing carries over: when the
\* next interval reports no field (two progress lines in a row), the snapshot
\* published for it has every field absent.
C13_AccumulatorResetAfterPublish ==
    [][JustRead(ProgressLines)
         => /\ progress' = Default
            /\ (lastLine \in ProgressLines /\ NumOk(published') > NumOk(published))
                 => published'[Len(published')] =
                        OkItem([Default EXCEPT !.status = StatusOf(lastLine')])]_vars

\* C13 witness: frame was reported in the first interval and is present in
\* its snapshot; the second interval reported nothing and its snapshot has
\* frame, like every field, absent.
C13_Witness ==
    /\ Len(readLog) = 3
    /\ Len(published) = 2
    /\ IsOk(published[1]) /\ published[1].val.frame # None
    /\ published[2] = OkItem(Default)
    /\ progress = Default

\* the classes of read for which the claims say the pump terminates
FormatErrorClasses == {"no_eq", "unknown_status", "bad_value"}

\* C16 (as claimed): after a key-value format violation, an unknown status
\* or a numeric parse failure that closed the stream, the pump reads no
\* further line: such a read is the last read there is.
C16_NoReadAfterFormatError ==
    \A i \in DOMAIN readLog :
        (readLog[i].cls \in FormatErrorClasses /\ readLog[i].open)
            => i = Len(readLog)

\* C17: run() proceeds in the order bind, spawn, accept, pump. The
\* subprocess exists only with the listener bound and its port known; at
\* most one accept is made, and only with the subprocess spawned; the pump
\* task, the result stream and the returned handle exist only after that
\* one accept; a failed bind spawns nothing, and a failed spawn makes no
\* accept and starts no pump.
C17_RendezvousOrder ==
    /\ child => (listener /\ port = osPort)
    /\ args # None => listener
    /\ accepts <= 1
    /\ accepts = 1 => child
    /\ (pumppc # "idle" \/ rx # "none" \/ ret = "Ok")
         => (accepts = 1 /\ runpc = "ret_ok")
    /\ runpc = "ret_ok" => (pumppc # "idle" /\ rx # "none" /\ ret = "Ok")
    /\ runpc = "ret_bind_err"
         => (~listener /\ ~child /\ args = None /\ accepts = 0 /\ pumppc = "idle")
    /\ runpc = "ret_spawn_err" => (~child /\ accepts = 0 /\ pumppc = "idle")

\* C17 witness: run() returned the handle; the listener was bound, the
\* subprocess spawned with the port in its arguments, one connection
\* accepted, and the pump is reading.
C17_Witness ==
    /\ runpc = "ret_ok"
    /\ listener /\ child /\ accepts = 1
    /\ args = Some(<<<<"-">> \o K_progress, TcpPrefix \o <<"1", "0", "2", "4">>>>)
    /\ pumppc = "run"
    /\ HasRead

\* C19: a key=value line with an unrecognized key is ignored. The step that
\* reads it changes neither the accumulator nor the channel and publishes
\* nothing, and a progress=continue read next on the open channel publishes
\* exactly one snapshot, which is the accumulator as it was before the
\* ignored line.
C19_UnknownKeyIgnored ==
    [][/\ JustRead(IgnoredLines)
            => (progress' = progress /\ published' = published /\ chan' = chan
                /\ pumppc' = "run")
       /\ (JustRead(ContinueLines) /\ lastLine \in IgnoredLines /\ chan.open)
            => (published' = Append(published, OkItem(progress)) /\ chan'.open)]_vars

\* C19 witness: bitrate=... was read on the open channel in an interval
\* that had accumulated a frame count; nothing was published for it and a
\* further read can follow.
C19_Witness ==
    /\ lastLine = L_bitrate
    /\ HasRead /\ LastRead.open /\ chan.open
    /\ progress.frame # None
    /\ Len(published) = LastRead.npub
    /\ pumppc = "run" /\ Len(readLog) < MaxReads

\* C20 (as claimed): a blank line read while the stream is open, with the
\* consumer still holding the receiver and the pump still in its loop,
\* leaves the stream open.
C20_BlankLineKeepsStreamOpen ==
    (HasRead /\ lastLine \in BlankLines /\ LastRead.open
       /\ rx = "alive" /\ pumppc = "run")
        => chan.open

\* C20 (amended): a blank line (empty or whitespace only) has no "=" and is
\* handled as a key-value format violation: the stream is closed once it
\* has been read, and no snapshot is published for any line read after a
\* line without "=".
C20_BlankLineClosesStream ==
    /\ (HasRead /\ lastLine \in BlankLines) => ~chan.open
    /\ \A i \in DOMAIN readLog :
           readLog[i].cls = "no_eq"
               => NumOk(published) = NumOk(SubSeq(published, 1, readLog[i].npub))

\* C20 witness: a whitespace-only line was read on the open channel between
\* key=value lines, after one snapshot had been published; the channel is
\* closed although the consumer still holds the receiver.
C20_Witness ==
    /\ lastLine = L_blank_sp
    /\ HasRead /\ LastRead.open /\ LastRead.npub = 1
    /\ IsOk(published[1]) /\ Len(published) = 1
    /\ rx = "alive" /\ ~chan.open
    /\ pumppc = "run"

RECURSIVE Flat(_)
\* the concatenation of a sequence of sequences
Flat(ss) == IF ss = <<>> THEN <<>> ELSE Head(ss) \o Flat(Tail(ss))

\* the arguments one option stands for
RenderParam(p) ==
    CASE p.tag = "Single" /\ p.k # <<>> -> <<(<<"-">> \o p.k)>>
      [] p.tag = "Single" /\ p.k = <<>> -> <<(<<>>)>>
      [] p.tag = "KeyValue" -> <<(<<"-">> \o p.k), p.v>>

RenderParams(ps) == Flat([i \in 1..Len(ps) |-> RenderParam(ps[i])])

RenderInputs(fs) ==
    Flat([i \in 1..Len(fs) |->
            RenderParams(fs[i].options) \o <<(<<"-", "i">>), fs[i].url>>])

RenderOutputs(fs) ==
    Flat([i \in 1..Len(fs) |-> RenderParams(fs[i].options) \o <<fs[i].url>>])

\* C14: the argument vector of a job description is its global options in
\* insertion order, then per input its options, "-i" and its url, then per
\* output its options and its url; a non-empty flag is "-name", a key/value
\* option is "-key" and the value, a flag with an empty name is one empty
\* argument.
C14_RenderedArguments ==
    runpc = "rendered"
        => args = Some(RenderParams(builder.options)
                       \o RenderInputs(builder.inputs)
                       \o RenderOutputs(builder.outputs))

\* C14 witness: -y, an empty flag, an input and an output with a key/value
\* option were rendered to "-y", "", "-i", "in.mkv", "-vcodec", "libx265",
\* "out.mp4".
C14_Witness ==
    /\ runpc = "rendered"
    /\ builder.options = <<Single(S_y), Single(<<>>)>>
    /\ Len(builder.inputs) = 1 /\ Len(builder.outputs) = 1
    /\ args = Some(<<(<<"-", "y">>), <<>>, <<"-", "i">>, S_in_mkv,
                      <<"-", "v", "c", "o", "d", "e", "c">>, S_libx265,
                      S_out_mp4>>)

\* the decimal text of the ports of Ports
PortText(pt) ==
    CASE pt = 1024 -> <<"1", "0", "2", "4">>
      [] pt = 40000 -> <<"4", "0", "0", "0", "0">>
      [] pt = 65535 -> <<"6", "5", "5", "3", "5">>

\* "-progress" and "tcp://127.0.0.1:<port>"
ProgressArgs(pt) ==
    <<(<<"-", "p", "r", "o", "g", "r", "e", "s", "s">>),
      <<"t", "c", "p", ":", "/", "/", "1", "2", "7", ".", "0", ".", "0", ".",
        "1", ":">> \o PortText(pt)>>

\* C15: once run() has bound the listener the builder holds the caller's
\* options followed by exactly one more, -progress tcp://127.0.0.1:<port>
\* with the listener's port, and the caller's inputs and outputs as they
\* were; the argument vector of the spawned command is the caller's global
\* options, then these two arguments, then the arguments of the inputs and
\* of the outputs.
C15_ProgressOptionAppended ==
    /\ runpc \in {"spawn", "accept", "ret_spawn_err"}
         => /\ port = osPort
            /\ Len(builder.options) = Len(user.options) + 1
            /\ SubSeq(builder.options, 1, Len(user.options)) = user.options
            /\ RenderParam(builder.options[Len(builder.options)])
                   = ProgressArgs(port)
            /\ builder.inputs = user.inputs
            /\ builder.outputs = user.outputs
    /\ runpc \in {"accept", "ret_spawn_err"}
         => args = Some(RenderParams(user.options)
                        \o ProgressArgs(port)
                        \o RenderInputs(user.inputs)
                        \o RenderOutputs(user.outputs))

\* C15 witness: the caller's job had a global option, an input and an
\* output; the command was spawned with "-progress" and the url of port
\* 40000 between "-y" and "-i".
C15_Witness ==
    /\ runpc = "accept"
    /\ child
    /\ user = ExampleBuilder
    /\ args = Some(<<(<<"-", "y">>),
                      <<"-", "p", "r", "o", "g", "r", "e", "s", "s">>,
                      <<"t", "c", "p", ":", "/", "/", "1", "2", "7", ".", "0",
                        ".", "0", ".", "1", ":", "4", "0", "0", "0", "0">>,
                      <<"-", "i">>, S_in_mkv,
                      <<"-", "v", "c", "o", "d", "e", "c">>, S_libx265,
                      S_out_mp4>>)

\* the positions of "=" in s
EqAt(s) == {i \in 1..Len(s) : s[i] = "="}

\* s without its leading and trailing whitespace
Strip(s) ==
    LET inked == {i \in 1..Len(s) : s[i] \notin WhiteSpace}
    IN IF inked = {} THEN <<>>
       ELSE SubSeq(s, CHOOSE a \in inked : \A i \in inked : a <= i,
                      CHOOSE b \in inked : \A i \in inked : b >= i)

\* C18: parse_line returns absent exactly when the line has no "=";
\* otherwise the key is what precedes the first "=" and the value all that
\* follows it (later "=" included), each without the whitespace at its
\* ends.
C18_ParseLineSplitsAtFirstEq ==
    runpc = "parsed"
        => IF EqAt(pin) = {}
           THEN pout = Some(None)
           ELSE LET i == CHOOSE a \in EqAt(pin) : \A j \in EqAt(pin) : a <= j
                IN pout = Some(Some(<<Strip(SubSeq(pin, 1, i - 1)),
                                      Strip(SubSeq(pin, i + 1, Len(pin)))>>))

\* C18 witness: "  speed=1.02x  " gave (speed, 1.02x).
C18_Witness ==
    /\ runpc = "parsed"
    /\ pin = L_speed_padded
    /\ pout = Some(Some(<<K_speed, <<"1", ".", "0", "2", "x">>>>))

====
